---- MODULE Spec2Model ----
(***************************************************************************)
(* Model of the libweave example network provider (SSLStream and           *)
(* NetworkImpl, libweave/examples/ubuntu/network_manager.cc) and of the    *)
(* stream copier (MemoryStream and StreamCopier, src/streams.cc).           *)
(*                                                                         *)
(* All three run on one single-threaded TaskRunner.  A posted task is a    *)
(* record holding its due time, the bound method and its bound arguments;  *)
(* a task bound to a WeakPtr also holds the weak reference it was bound    *)
(* with and is dropped by the runner when that reference is invalid.       *)
(***************************************************************************)
EXTENDS Integers, Sequences, FiniteSets, TLC

\* ---------------------------------------------------------------- bounds
MaxOps == 2          \* ReadAsync / WriteAllAsync calls made by the user
MaxTimeSSL == 1      \* seconds of clock the stream runs are followed for

VARIABLES
  now,        \* base::Time::Now(), in whole seconds
  tasks,      \* the TaskRunner's queue, in posting order
  ev,         \* the last step taken (what ran, and on whose behalf)
  crashed,    \* a CHECK failed: the process has aborted
  ssl_alive,  \* the SSLStream object exists
  ops,        \* every ReadAsync / WriteAllAsync call made so far
  net_state,          \* the NetworkImpl object: not yet built, alive, destroyed
  hostapd_started_,   \* NetworkImpl::hostapd_started_
  callbacks_,         \* NetworkImpl::callbacks_, in registration order
  attempts,           \* every ConnectToService call that started TryToConnect
  platform,           \* what the commands run by NetworkImpl have left behind
  scope,              \* how far a run is followed: clock horizon, attempts
  source,         \* the MemoryStream read from: data_, read_position_
  destination,    \* the MemoryStream written to: data_
  copier,         \* the StreamCopier: exists, buffer_, size_done_
  copy_log,       \* reads, writes and callbacks of the copy so far, in order
  opens           \* every OpenSslSocket call made so far

sslVars == <<ssl_alive, ops>>
netVars == <<net_state, hostapd_started_, callbacks_, attempts, platform>>
copyVars == <<source, destination, copier, copy_log>>
vars == <<now, tasks, ev, crashed, scope, sslVars, netVars, copyVars, opens>>

\* The variables of a component stay at these values in the runs of another.
OpenUnused == opens = <<>>

\* SSLStream::Init is running: it sleeps on the runner's thread, so nothing
\* else runs until it returns.
InitRunning == \E o \in DOMAIN opens : opens[o].pc # "returned"

CopyUnused ==
  source = <<>> /\ destination = <<>> /\ copier = <<>> /\ copy_log = <<>>

Scope(h, n) == [horizon |-> h, attempts |-> n]

SslUnused == ssl_alive = FALSE /\ ops = <<>>
NetUnused ==
  /\ net_state = "none" /\ hostapd_started_ = FALSE /\ callbacks_ = <<>>
  /\ attempts = <<>> /\ platform = <<>>

\* ------------------------------------------------------------ TaskRunner
\* PostDelayedTask(FROM_HERE, closure, delay), called when the clock reads
\* `clk`: the closure becomes due `delay` seconds later.
PostDelayedTask(q, t, clk, delay) == Append(q, [t EXCEPT !.due = clk + delay])

RemoveAt(q, i) == SubSeq(q, 1, i - 1) \o SubSeq(q, i + 1, Len(q))

\* The runner executes callbacks after their delay has elapsed, the earliest
\* due first and, among equals, in the order they were posted.
NextTask(q) ==
  CHOOSE i \in 1..Len(q) :
    \A j \in 1..Len(q) : q[i].due < q[j].due \/ (q[i].due = q[j].due /\ i <= j)

\* The runner sleeps until its next task is due.  Runs are followed until
\* the runner would sleep past second h.
TaskReady(q, h) ==
  /\ ~InitRunning
  /\ q # <<>> /\ (q[NextTask(q)].due <= now \/ q[NextTask(q)].due <= h)

\* The clock when the runner starts task t.
RunnerClock(t) == IF t.due > now THEN t.due ELSE now

\* ------------------------------------------------------------- SSLStream
\* The sizes a caller passes.  They stay below INT_MAX, so the conversion
\* size_t -> int in SSL_read(ssl, buffer, size_to_read) and
\* SSL_write(ssl, buffer, size_to_write) keeps their value.
Sizes == {0, 1, 2}

WouldBlock == {"SSL_ERROR_WANT_READ", "SSL_ERROR_WANT_WRITE"}

\* What SSL_read / SSL_write may answer for `num` bytes: res > 0 bytes moved
\* (never more than asked for), or res <= 0 and the class SSL_get_error gives.
SslOutcomes(num) ==
  {[res |-> r, err |-> "SSL_ERROR_NONE"] : r \in 1..num}
    \cup {[res |-> -1, err |-> e] : e \in WouldBlock \cup {"SSL_ERROR_SSL"}}
    \cup {[res |-> 0, err |-> "SSL_ERROR_ZERO_RETURN"]}

\* weak_ptr_factory_.InvalidateWeakPtrs(): the flag shared by every weak
\* reference handed out so far is cleared, so the closures already bound to
\* one become invalid; a later GetWeakPtr() refers to a fresh, valid flag.
InvalidateWeakPtrs_NoOp(q) == q
InvalidateWeakPtrs(q) ==
  [i \in DOMAIN q |-> IF q[i].bound THEN [q[i] EXCEPT !.wp = FALSE] ELSE q[i]]

\* A closure bound to a WeakPtr runs only while its reference is valid.
WeakPtrValid_Always(t) == TRUE
WeakPtrValid(t) == t.wp

\* Every operation started so far belongs to the invalidated references.
MarkCancelled(os) == [o \in DOMAIN os |-> [os[o] EXCEPT !.cancelled = TRUE]]

SslTask(kind, o, cb, code, n, off, size) ==
  [kind |-> kind, due |-> 0, bound |-> TRUE, wp |-> TRUE, op |-> o, cb |-> cb,
   code |-> code, n |-> n, off |-> off, size |-> size]

\* The one task a ReadAsync invocation posts, and its delay.
ReadAsyncPost_ZeroIsData(o, size, out) ==
  IF out.res >= 0
    THEN [t |-> SslTask("RunDelayedTask", o, "success", "", out.res, 0, size),
          delay |-> 0]
    ELSE IF out.err \in WouldBlock
      THEN [t |-> SslTask("ReadAsync", o, "", "", 0, 0, size), delay |-> 1]
      ELSE [t |-> SslTask("RunDelayedTask", o, "error", "socket_read_failed",
                          0, 0, size),
            delay |-> 0]
ReadAsyncPost_WouldBlockIsError(o, size, out) ==
  IF out.res > 0
    THEN [t |-> SslTask("RunDelayedTask", o, "success", "", out.res, 0, size),
          delay |-> 0]
    ELSE [t |-> SslTask("RunDelayedTask", o, "error", "socket_read_failed",
                        0, 0, size),
          delay |-> 0]
ReadAsyncPost(o, size, out) ==
  IF out.res > 0
    THEN [t |-> SslTask("RunDelayedTask", o, "success", "", out.res, 0, size),
          delay |-> 0]
    ELSE IF out.err \in WouldBlock
      THEN [t |-> SslTask("ReadAsync", o, "", "", 0, 0, size), delay |-> 1]
      ELSE [t |-> SslTask("RunDelayedTask", o, "error", "socket_read_failed",
                          0, 0, size),
            delay |-> 0]

\* The one task a WriteAllAsync invocation posts: `off` is how far the buffer
\* pointer has advanced, `size` what is left to write.
WriteAllAsyncPost_KeepsPointer(o, off, size, out) ==
  IF out.res > 0
    THEN IF size - out.res = 0
      THEN [t |-> SslTask("RunDelayedTask", o, "success", "", 0,
                          off + out.res, 0),
            delay |-> 0]
      ELSE [t |-> SslTask("WriteAllAsync", o, "", "", 0, off, size - out.res),
            delay |-> 1]
    ELSE IF out.err \in WouldBlock
      THEN [t |-> SslTask("WriteAllAsync", o, "", "", 0, off, size),
            delay |-> 1]
      ELSE [t |-> SslTask("RunDelayedTask", o, "error", "socket_write_failed",
                          0, off, size),
            delay |-> 0]
WriteAllAsyncPost_RetryOnFatal(o, off, size, out) ==
  IF out.res > 0
    THEN IF size - out.res = 0
      THEN [t |-> SslTask("RunDelayedTask", o, "success", "", 0,
                          off + out.res, 0),
            delay |-> 0]
      ELSE [t |-> SslTask("WriteAllAsync", o, "", "", 0, off + out.res,
                          size - out.res),
            delay |-> 1]
    ELSE [t |-> SslTask("WriteAllAsync", o, "", "", 0, off, size),
          delay |-> 1]
WriteAllAsyncPost(o, off, size, out) ==
  IF out.res > 0
    THEN IF size - out.res = 0
      THEN [t |-> SslTask("RunDelayedTask", o, "success", "", 0,
                          off + out.res, 0),
            delay |-> 0]
      ELSE [t |-> SslTask("WriteAllAsync", o, "", "", 0, off + out.res,
                          size - out.res),
            delay |-> 1]
    ELSE IF out.err \in WouldBlock
      THEN [t |-> SslTask("WriteAllAsync", o, "", "", 0, off, size),
            delay |-> 1]
      ELSE [t |-> SslTask("RunDelayedTask", o, "error", "socket_write_failed",
                          0, off, size),
            delay |-> 0]

\* An invocation of ReadAsync or WriteAllAsync just made: by a caller or by
\* the runner, with which buffer offset and size, and what the TLS call gave.
SslEv(act, o, via, out, off, size) ==
  [act |-> act, op |-> o, via |-> via, out |-> out, off |-> off, size |-> size]

NewOp(kind, size) ==
  [kind |-> kind, size |-> size, cancelled |-> FALSE, succ |-> 0, err |-> 0,
   n |-> 0, code |-> "", late |-> FALSE]

\* A read (a write) is outstanding while a task of it is queued with a valid
\* weak reference.  Callers keep at most one of each outstanding per stream.
Outstanding(kind) ==
  \E i \in 1..Len(tasks) :
    WeakPtrValid(tasks[i]) /\ ops[tasks[i].op].kind = kind

\* A caller invokes ReadAsync(buffer, size_to_read, success, error, nullptr).
ReadAsync ==
  /\ ~crashed /\ ssl_alive /\ Len(ops) < MaxOps /\ ~Outstanding("read")
  /\ \E size \in Sizes : \E out \in SslOutcomes(size) :
       LET o == Len(ops) + 1
           p == ReadAsyncPost(o, size, out)
       IN /\ ops' = Append(ops, NewOp("read", size))
          /\ tasks' = PostDelayedTask(tasks, p.t, now, p.delay)
          /\ ev' = SslEv("ReadAsync", o, "call", out, 0, size)
  /\ UNCHANGED <<scope, copyVars, opens, now, crashed, ssl_alive, netVars>>

\* A caller invokes WriteAllAsync(buffer, size_to_write, success, error, nullptr).
WriteAllAsync ==
  /\ ~crashed /\ ssl_alive /\ Len(ops) < MaxOps /\ ~Outstanding("write")
  /\ \E size \in Sizes : \E out \in SslOutcomes(size) :
       LET o == Len(ops) + 1
           p == WriteAllAsyncPost(o, 0, size, out)
       IN /\ ops' = Append(ops, NewOp("write", size))
          /\ tasks' = PostDelayedTask(tasks, p.t, now, p.delay)
          /\ ev' = SslEv("WriteAllAsync", o, "call", out, 0, size)
  /\ UNCHANGED <<scope, copyVars, opens, now, crashed, ssl_alive, netVars>>

CancelPendingAsyncOperations ==
  /\ ~crashed /\ ssl_alive
  /\ tasks' = InvalidateWeakPtrs(tasks)
  /\ ops' = MarkCancelled(ops)
  /\ ev' = [act |-> "CancelPendingAsyncOperations", op |-> 0, via |-> "call"]
  /\ UNCHANGED <<scope, copyVars, opens, now, crashed, ssl_alive, netVars>>

\* ~SSLStream(): cancels, then the factory and the TLS handles are destroyed.
SslDestroy ==
  /\ ~crashed /\ ssl_alive
  /\ ssl_alive' = FALSE
  /\ tasks' = InvalidateWeakPtrs(tasks)
  /\ ops' = MarkCancelled(ops)
  /\ ev' = [act |-> "~SSLStream", op |-> 0, via |-> "call"]
  /\ UNCHANGED <<scope, copyVars, opens, now, crashed, netVars>>

\* The runner reaches a task whose weak reference is invalid: nothing runs.
SslDropTask ==
  /\ ~crashed /\ TaskReady(tasks, scope.horizon)
  /\ LET i == NextTask(tasks) t == tasks[i] IN
       /\ now' = RunnerClock(t)
       /\ ~WeakPtrValid(t)
       /\ tasks' = RemoveAt(tasks, i)
       /\ ev' = [act |-> "Drop", op |-> t.op, via |-> "task"]
  /\ UNCHANGED <<scope, copyVars, opens, crashed, ssl_alive, ops, netVars>>

\* SSLStream::RunDelayedTask(closure): runs the bound success or error callback.
RunDelayedTask ==
  /\ ~crashed /\ TaskReady(tasks, scope.horizon)
  /\ LET i == NextTask(tasks) t == tasks[i] IN
       /\ now' = RunnerClock(t)
       /\ WeakPtrValid(t) /\ t.kind = "RunDelayedTask"
       /\ tasks' = RemoveAt(tasks, i)
       /\ ops' = [ops EXCEPT ![t.op] =
                    IF t.cb = "success"
                      THEN [@ EXCEPT !.succ = @ + 1, !.n = t.n,
                                     !.late = @ \/ ops[t.op].cancelled]
                      ELSE [@ EXCEPT !.err = @ + 1, !.code = t.code,
                                     !.late = @ \/ ops[t.op].cancelled]]
       /\ ev' = [act |-> "RunDelayedTask", op |-> t.op, via |-> "task"]
  /\ UNCHANGED <<scope, copyVars, opens, crashed, ssl_alive, netVars>>

\* The runner runs a posted retry of ReadAsync with the bound arguments.
ReadAsyncRetry ==
  /\ ~crashed /\ TaskReady(tasks, scope.horizon)
  /\ LET i == NextTask(tasks) t == tasks[i] IN
       /\ now' = RunnerClock(t)
       /\ WeakPtrValid(t) /\ t.kind = "ReadAsync"
       /\ \E out \in SslOutcomes(t.size) :
            LET p == ReadAsyncPost(t.op, t.size, out) IN
              /\ tasks' = PostDelayedTask(RemoveAt(tasks, i), p.t, RunnerClock(t), p.delay)
              /\ ev' = SslEv("ReadAsync", t.op, "task", out, t.off, t.size)
              /\ UNCHANGED ops
  /\ UNCHANGED <<scope, copyVars, opens, crashed, ssl_alive, netVars>>

\* The runner runs a posted continuation of WriteAllAsync.
WriteAllAsyncRetry ==
  /\ ~crashed /\ TaskReady(tasks, scope.horizon)
  /\ LET i == NextTask(tasks) t == tasks[i] IN
       /\ now' = RunnerClock(t)
       /\ WeakPtrValid(t) /\ t.kind = "WriteAllAsync"
       /\ \E out \in SslOutcomes(t.size) :
            LET p == WriteAllAsyncPost(t.op, t.off, t.size, out) IN
              /\ tasks' = PostDelayedTask(RemoveAt(tasks, i), p.t, RunnerClock(t), p.delay)
              /\ ev' = SslEv("WriteAllAsync", t.op, "task", out, t.off, t.size)
              /\ UNCHANGED ops
  /\ UNCHANGED <<scope, copyVars, opens, crashed, ssl_alive, netVars>>

\* An SSLStream whose Init has returned true, with nothing in flight.
InitSSL ==
  /\ now = 0 /\ tasks = <<>> /\ crashed = FALSE /\ scope = Scope(MaxTimeSSL, 0)
  /\ ev = [act |-> "Init", op |-> 0, via |-> "call"]
  /\ ssl_alive = TRUE /\ ops = <<>>
  /\ NetUnused /\ CopyUnused /\ OpenUnused

NextSSL ==
  \/ ReadAsync
  \/ WriteAllAsync
  \/ CancelPendingAsyncOperations
  \/ SslDestroy
  \/ SslDropTask
  \/ RunDelayedTask
  \/ ReadAsyncRetry
  \/ WriteAllAsyncRetry

SpecSSL == InitSSL /\ [][NextSSL]_vars

\* ------------------------------------------------- claims on the SSLStream
Callbacks(o, os) == IF o \in DOMAIN os THEN os[o].succ + os[o].err ELSE 0

\* C1: once CancelPendingAsyncOperations (or the destructor) has run while a
\* ReadAsync or WriteAllAsync was in flight, no step invokes the success or
\* the error callback of that operation, and no posted retry of it runs
\* (calls SSL_read or SSL_write) any more.
C1_CancelSilencesPending ==
  [][\A o \in DOMAIN ops :
       ops[o].cancelled =>
         /\ ops'[o].succ = ops[o].succ
         /\ ops'[o].err = ops[o].err
         /\ ~(ev'.via = "task" /\ ev'.op = o
                /\ ev'.act \in {"ReadAsync", "WriteAllAsync", "RunDelayedTask"})]_vars

\* A cancelled operation of a stream that still exists had a task queued, and
\* the runner has just dropped it without any callback.
C1_Witness ==
  /\ ssl_alive /\ ev.act = "Drop"
  /\ ops[ev.op].cancelled /\ Callbacks(ev.op, ops) = 0

\* C2 as stated: after a cancel, no callback of the stream is invoked in any
\* later step, also not for operations issued after the cancel.
C2_Original ==
  [][(\E o \in DOMAIN ops : ops[o].cancelled) =>
       \A o \in DOMAIN ops' : Callbacks(o, ops') = Callbacks(o, ops)]_vars

\* C2 as amended: no callback is ever delivered to an operation that was
\* started before a cancel after that cancel; an operation started after the
\* cancel is not affected by it.
C2_NoCallbackAfterItsCancel ==
  \A o \in DOMAIN ops :
    /\ ~ops[o].late
    /\ (ops[o].cancelled /\ Callbacks(o, ops) = 0) =>
         \A i \in 1..Len(tasks) : tasks[i].op = o => ~tasks[i].wp

\* The first operation was cancelled and never called back; the second one,
\* issued on the same stream after the cancel, got its callback.
C2_Witness ==
  /\ Len(ops) = 2 /\ ssl_alive
  /\ ops[1].cancelled /\ Callbacks(1, ops) = 0
  /\ ~ops[2].cancelled /\ Callbacks(2, ops) = 1

\* C10: the byte count given to a ReadAsync success callback is positive and
\* at most the size asked for, and no ReadAsync invocation (the call or a
\* retry) runs a callback itself: callbacks run only from RunDelayedTask.
C10_ReadDelivery ==
  /\ [](\A o \in DOMAIN ops :
          (ops[o].kind = "read" /\ ops[o].succ > 0) =>
            (0 < ops[o].n /\ ops[o].n <= ops[o].size))
  /\ [][ev'.act = "ReadAsync" =>
          \A o \in DOMAIN ops' : Callbacks(o, ops') = Callbacks(o, ops)]_vars

\* A read of 2 bytes has delivered 1 byte through the task runner.
C10_Witness ==
  /\ ev.act = "RunDelayedTask"
  /\ ops[ev.op].kind = "read" /\ ops[ev.op].size = 2
  /\ ops[ev.op].succ = 1 /\ ops[ev.op].n = 1

\* The TLS call asked to be called again.
IsWouldBlock(out) ==
  out.res <= 0 /\ out.err \in {"SSL_ERROR_WANT_READ", "SSL_ERROR_WANT_WRITE"}

\* The step is an invocation of ReadAsync or WriteAllAsync, by a caller or
\* by the runner; the task it posted is the last of the queue.
Invoked == ev'.act \in {"ReadAsync", "WriteAllAsync"}
Posted == tasks'[Len(tasks')]

TasksOf(o) == {i \in 1..Len(tasks) : tasks[i].op = o}

FailureCode(kind) ==
  IF kind = "read" THEN "socket_read_failed" ELSE "socket_write_failed"

\* C12: a would-block result of SSL_read / SSL_write runs no callback and
\* posts the same operation again, 1 s later, with the same callbacks and the
\* buffer position and size it was invoked with; an error callback is posted
\* only for a failure that is not would-block, and carries
\* socket_read_failed for a read and socket_write_failed for a write.
C12_WouldBlockRetries ==
  /\ [](\A o \in DOMAIN ops :
          ops[o].err > 0 => ops[o].code = FailureCode(ops[o].kind))
  /\ [][Invoked =>
          /\ \A o \in DOMAIN ops : Callbacks(o, ops') = Callbacks(o, ops)
          /\ Callbacks(ev'.op, ops') = 0
          /\ IsWouldBlock(ev'.out) =>
               /\ Posted.kind = ev'.act /\ Posted.op = ev'.op
               /\ Posted.cb = "" /\ WeakPtrValid(Posted)
               /\ Posted.due = now' + 1
               /\ Posted.off = ev'.off /\ Posted.size = ev'.size
          /\ Posted.cb = "error" =>
               /\ ev'.out.res <= 0 /\ ~IsWouldBlock(ev'.out)
               /\ Posted.code = FailureCode(ops'[ev'.op].kind)]_vars

\* A write that had one of its two bytes accepted is retried by the runner,
\* would block, and is posted again for its second byte.
C12_Witness ==
  /\ ev.act = "WriteAllAsync" /\ ev.via = "task" /\ IsWouldBlock(ev.out)
  /\ ev.off = 1 /\ ev.size = 1
  /\ tasks[Len(tasks)].kind = "WriteAllAsync" /\ tasks[Len(tasks)].off = 1
  /\ tasks[Len(tasks)].due = now + 1

\* C13: for a write of s >= 1 bytes each attempt offers the bytes not yet
\* accepted, the pointer and the remaining size move by the bytes accepted,
\* never past s, and success is posted once, when nothing remains.
C13_WriteProgress ==
  /\ [](\A o \in DOMAIN ops :
          (ops[o].kind = "write" /\ ops[o].size >= 1) =>
            /\ Cardinality(TasksOf(o)) <= 1
            /\ ops[o].succ + Cardinality(TasksOf(o)) <= 1
            /\ \A i \in TasksOf(o) :
                 /\ tasks[i].off >= 0 /\ tasks[i].size >= 0
                 /\ tasks[i].off + tasks[i].size = ops[o].size
                 /\ tasks[i].kind = "WriteAllAsync" => tasks[i].size >= 1
                 /\ tasks[i].cb = "success" <=> tasks[i].size = 0)
  /\ [][(ev'.act = "WriteAllAsync" /\ ops'[ev'.op].size >= 1) =>
          IF ev'.out.res > 0
            THEN /\ Posted.off = ev'.off + ev'.out.res
                 /\ Posted.size = ev'.size - ev'.out.res
            ELSE /\ Posted.off = ev'.off /\ Posted.size = ev'.size
                 /\ Posted.cb # "success"]_vars

\* A write of two bytes had one accepted, then the other: success is posted.
C13_Witness ==
  /\ ev.act = "WriteAllAsync" /\ ev.via = "task"
  /\ ev.off = 1 /\ ev.size = 1 /\ ev.out.res = 1
  /\ tasks[Len(tasks)].cb = "success" /\ tasks[Len(tasks)].off = 2

\* The result ends the operation: data read, the last byte written, or a
\* failure that is not would-block.
Terminal(e) ==
  \/ e.out.res <= 0 /\ ~IsWouldBlock(e.out)
  \/ e.act = "ReadAsync" /\ e.out.res > 0
  \/ e.act = "WriteAllAsync" /\ e.out.res > 0 /\ e.out.res = e.size

\* C14: an operation runs at most one callback, once; it has one task queued
\* while it is pending and none afterwards; the invocation that gets the
\* first result that is not would-block (data, the last bytes written, or a
\* failure) posts the callback and no retry.
C14_OneResolution ==
  /\ [](\A o \in DOMAIN ops :
          /\ ops[o].succ + ops[o].err <= 1
          /\ Cardinality(TasksOf(o)) <= 1
          /\ Callbacks(o, ops) = 1 => TasksOf(o) = {})
  /\ [][Invoked =>
          (Terminal(ev') <=> Posted.kind = "RunDelayedTask")]_vars

\* A read would block, was retried a second later, failed, and its error
\* callback has run; nothing of it is queued.
C14_Witness ==
  /\ ev.act = "RunDelayedTask" /\ now = 1 /\ Len(ops) = 1
  /\ ops[1].kind = "read" /\ ops[1].err = 1 /\ ops[1].succ = 0
  /\ tasks = <<>>

\* ----------------------------------------------------------- NetworkImpl
MaxAttempts == 2      \* ConnectToService calls that start a connect attempt
ApAttempts == 1       \* the same, in the runs that switch the access point
MaxListeners == 2     \* AddOnConnectionChangedCallback calls
LastStart == 1        \* last second at which a connect or an enable is called
MaxPosted == 2        \* notifications queued when an enable or a disable is called

kConnectTimeout == 60 \* base::TimeDelta::FromMinutes(1), in seconds
kRetryDelay == 1      \* base::TimeDelta::FromSeconds(1)
kIfconfigTries == 10  \* for (size_t i = 0; i < 10; ++i)

\* Runs of the NetworkImpl are followed until every attempt has met its deadline.
NetHorizon == LastStart + kConnectTimeout + kRetryDelay
ApHorizon == LastStart + kRetryDelay

Targets == {"home"}            \* ssid given to ConnectToService
SSIDs == {"home", "guest"}     \* what wlan0 may report as its essid
ApSsids == {"setup"}           \* ssid given to EnableAccessPoint
ExitStatus == {0, 1}           \* what std::system(...) returns

NetTask(kind, isBound, a, pid, cause) ==
  [kind |-> kind, due |-> 0, bound |-> isBound, wp |-> TRUE, att |-> a,
   pid |-> pid, cause |-> cause]

NotifyTask(a, cause) == NetTask("NotifyNetworkChanged", TRUE, a, 0, cause)

\* PostDelayedTask for each of `posts` (<<task, delay>> pairs), in order.
RECURSIVE PostAll(_, _, _)
PostAll(q, posts, clk) ==
  IF posts = <<>> THEN q
  ELSE PostAll(PostDelayedTask(q, posts[1][1], clk, posts[1][2]), Tail(posts), clk)

CountTasks(q, kind, a) ==
  Cardinality({i \in 1..Len(q) : q[i].kind = kind /\ q[i].att = a})

\* GetConnectionState(): "Forced soft AP" returns kOffline before any probe;
\* the arguments are the exit statuses the three probes below it would give.
GetConnectionState_Probing(ping, dev, connecting) ==
  IF ping = 0 THEN "kConnected"
  ELSE IF dev # 0 THEN "kFailure"
  ELSE IF connecting = 0 THEN "kConnecting"
  ELSE "kOffline"
GetConnectionState(ping, dev, connecting) == "kOffline"

\* ForkCmd("nmcli", {"dev", "wifi", "connect", ssid, "password", passphrase}):
\* the parent gets the child's pid, which is not 0.
ForkCmd == 1

\* What TryToConnect learns from the system in one invocation: whether
\* waitpid(pid, &status, WNOWAIT) returned pid, whether socket() and
\* ioctl(SIOCGIWESSID) succeeded, and the essid read.
TryOutcomes ==
  {[concluded |-> FALSE, iw_ok |-> TRUE, essid |-> "guest"],
   [concluded |-> TRUE, iw_ok |-> FALSE, essid |-> "guest"]}
    \cup {[concluded |-> TRUE, iw_ok |-> TRUE, essid |-> e] : e \in SSIDs}

\* ssid == essid: listeners are notified, then on_success is posted unbound.
OnMatch_NoNotify(a) == <<<<NetTask("on_success", FALSE, a, 0, "success"), 0>>>>
OnMatch_SuccessFirst(a) ==
  <<<<NetTask("on_success", FALSE, a, 0, "success"), 0>>,
    <<NotifyTask(a, "success"), 0>>>>
OnMatch(a) ==
  <<<<NotifyTask(a, "success"), 0>>,
    <<NetTask("on_success", FALSE, a, 0, "success"), 0>>>>

\* base::Time::Now() >= until: listeners are notified and the chain ends.
OnDeadline_Silent(a) == <<>>
OnDeadline_Reschedule(a) ==
  <<<<NotifyTask(a, "expired"), 0>>,
    <<NetTask("TryToConnect", TRUE, a, ForkCmd, ""), kRetryDelay>>>>
OnDeadline(a) == <<<<NotifyTask(a, "expired"), 0>>>>

\* Otherwise TryToConnect posts itself, bound to a weak pointer, with the pid.
OnRetry_Twice(a, pid) ==
  <<<<NetTask("TryToConnect", TRUE, a, pid, ""), kRetryDelay>>,
    <<NetTask("TryToConnect", TRUE, a, pid, ""), kRetryDelay>>>>
OnRetry(a, pid) == <<<<NetTask("TryToConnect", TRUE, a, pid, ""), kRetryDelay>>>>

\* One invocation of TryToConnect(ssid, passphrase, pid, until, on_success)
\* when the clock reads clk: what it does to the attempt and what it posts.
TryToConnectBody(a, ssid, pid, until, clk, out) ==
  LET polled == pid # 0 /\ out.concluded
      abort == polled /\ ~out.iw_ok
      match == polled /\ out.iw_ok /\ ssid = out.essid
      pid1 == IF polled THEN 0 ELSE pid
      forks == ~abort /\ ~match /\ pid1 = 0
      pid2 == IF pid1 = 0 THEN ForkCmd ELSE pid1
      expired == clk >= until
  IN [abort |-> abort,
      match |-> ~abort /\ match,
      forks |-> forks,
      expired |-> ~abort /\ ~match /\ expired,
      posts |-> IF abort THEN <<>>
                ELSE IF match THEN OnMatch(a)
                ELSE IF expired THEN OnDeadline(a)
                ELSE OnRetry(a, pid2)]

\* The record of attempt a after an invocation with result r at clock clk.
Attempt(att, r, clk) ==
  [att EXCEPT
     !.status = IF r.match THEN "success"
                ELSE IF r.expired THEN "expired" ELSE @,
     !.matched = IF ~r.match THEN @
                 ELSE IF clk < att.until THEN "in time" ELSE "late",
     !.expired_late = IF r.expired THEN clk >= att.until ELSE @,
     !.late_fork = @ \/ (r.forks /\ clk >= att.until),
     !.nposted = @ + CountTasks([i \in 1..Len(r.posts) |-> r.posts[i][1]],
                                "NotifyNetworkChanged", att.id)]

NetEv(act, a, ret, st) ==
  [act |-> act, att |-> a, ret |-> ret, st |-> st, calls |-> <<>>]

\* CHECK(!hostapd_started_) at the top of ConnectToService.
ConnectCheck == ~hostapd_started_

\* ConnectToService(ssid, passphrase, on_success, error).  With the access
\* point up the CHECK aborts the process before the "busy" error is built.
\* Otherwise TryToConnect runs once and the function ends without a return
\* statement: the bool the caller reads is whatever the build leaves there.
ConnectToService ==
  /\ ~crashed /\ net_state = "alive"
  /\ IF ~ConnectCheck
       THEN /\ crashed' = TRUE
            /\ ev' = NetEv("ConnectToService", 0, "abort", 0)
            /\ UNCHANGED <<scope, copyVars, opens, now, tasks, sslVars, netVars>>
       ELSE /\ Len(attempts) < scope.attempts /\ now <= LastStart
            /\ \E ssid \in Targets, out \in TryOutcomes, ret \in {"true", "false"} :
                 LET a == Len(attempts) + 1
                     until == now + kConnectTimeout
                     r == TryToConnectBody(a, ssid, 0, until, now, out)
                     fresh == [id |-> a, ssid |-> ssid, until |-> until,
                               status |-> "trying", matched |-> "no",
                               expired_late |-> FALSE,
                               late_fork |-> FALSE, nposted |-> 0, nrun |-> 0,
                               nvalue |-> "none", on_success |-> 0]
                 IN /\ attempts' = Append(attempts, Attempt(fresh, r, now))
                    /\ tasks' = PostAll(tasks, r.posts, now)
                    /\ crashed' = r.abort
                    /\ ev' = NetEv("ConnectToService", a, ret, 0)
            /\ UNCHANGED <<scope, copyVars, opens, now, sslVars, net_state, hostapd_started_,
                           callbacks_, platform>>

\* The runner runs a posted TryToConnect step.
TryToConnect ==
  /\ ~crashed /\ TaskReady(tasks, scope.horizon)
  /\ LET i == NextTask(tasks) t == tasks[i] clk == RunnerClock(tasks[i]) IN
       /\ WeakPtrValid(t) /\ t.kind = "TryToConnect"
       /\ now' = clk
       /\ \E out \in TryOutcomes :
            LET att == attempts[t.att]
                r == TryToConnectBody(t.att, att.ssid, t.pid, att.until, clk, out)
            IN /\ attempts' = [attempts EXCEPT ![t.att] = Attempt(att, r, clk)]
               /\ tasks' = PostAll(RemoveAt(tasks, i), r.posts, clk)
               /\ crashed' = r.abort
       /\ ev' = NetEv("TryToConnect", t.att, "void", 0)
  /\ UNCHANGED <<scope, copyVars, opens, sslVars, net_state, hostapd_started_, callbacks_, platform>>

\* The runner runs the caller's on_success closure.
OnSuccess ==
  /\ ~crashed /\ TaskReady(tasks, scope.horizon)
  /\ LET i == NextTask(tasks) t == tasks[i] IN
       /\ WeakPtrValid(t) /\ t.kind = "on_success"
       /\ now' = RunnerClock(t)
       /\ tasks' = RemoveAt(tasks, i)
       /\ attempts' = [attempts EXCEPT ![t.att].on_success = @ + 1]
       /\ ev' = NetEv("on_success", t.att, "void", 0)
  /\ UNCHANGED <<scope, copyVars, opens, crashed, sslVars, net_state, hostapd_started_, callbacks_,
                 platform>>

\* NotifyNetworkChanged(): every registered listener is run with `online`.
ListenerCalls_Reversed(online) ==
  [i \in 1..Len(callbacks_) |->
     [listener |-> callbacks_[Len(callbacks_) + 1 - i], online |-> online]]
ListenerCalls(online) ==
  [i \in 1..Len(callbacks_) |-> [listener |-> callbacks_[i], online |-> online]]

NotifyNetworkChanged ==
  /\ ~crashed /\ TaskReady(tasks, scope.horizon)
  /\ LET i == NextTask(tasks) t == tasks[i] IN
       /\ WeakPtrValid(t) /\ t.kind = "NotifyNetworkChanged"
       /\ now' = RunnerClock(t)
       /\ tasks' = RemoveAt(tasks, i)
       /\ \E ping \in ExitStatus, dev \in ExitStatus, connecting \in ExitStatus :
            LET online == GetConnectionState(ping, dev, connecting) = "kConnected"
            IN /\ ev' = [NetEv("NotifyNetworkChanged", t.att, t.cause, 0)
                         EXCEPT !.calls = ListenerCalls(online)]
               /\ attempts' =
                    IF t.att = 0 THEN attempts
                    ELSE [attempts EXCEPT
                            ![t.att].nrun = @ + 1,
                            ![t.att].nvalue = IF online THEN "true" ELSE "false"]
  /\ UNCHANGED <<scope, copyVars, opens, crashed, sslVars, net_state, hostapd_started_, callbacks_,
                 platform>>

\* The runner reaches a task whose NetworkImpl is gone: nothing runs.
NetDropTask ==
  /\ ~crashed /\ TaskReady(tasks, scope.horizon)
  /\ LET i == NextTask(tasks) t == tasks[i] IN
       /\ ~WeakPtrValid(t)
       /\ now' = RunnerClock(t)
       /\ tasks' = RemoveAt(tasks, i)
       /\ ev' = NetEv("Drop", t.att, t.kind, 0)
  /\ UNCHANGED <<scope, copyVars, opens, crashed, sslVars, netVars>>

AddOnConnectionChangedCallback ==
  /\ ~crashed /\ net_state = "alive" /\ Len(callbacks_) < MaxListeners
  /\ callbacks_' = Append(callbacks_, Len(callbacks_) + 1)
  /\ ev' = NetEv("AddOnConnectionChangedCallback", 0, "void", 0)
  /\ UNCHANGED <<scope, copyVars, opens, now, tasks, crashed, sslVars, net_state, hostapd_started_,
                 attempts, platform>>

\* if (hostapd_started_) return; at the top of EnableAccessPoint.
AlreadyStarted_Never == FALSE
AlreadyStarted == hostapd_started_

\* How many sleep(1) the ifconfig loop makes when the command fails `fails`
\* times in a row before it succeeds.
IfconfigSleeps(fails) == IF fails < kIfconfigTries THEN fails ELSE kIfconfigTries

\* EnableAccessPoint(ssid).  `fail` names the command that exits non-zero
\* under a CHECK_EQ (or "none"), `fails` the failures of ifconfig.
EnableAccessPoint ==
  /\ ~crashed /\ net_state = "alive" /\ now <= LastStart
  /\ CountTasks(tasks, "NotifyNetworkChanged", 0) < MaxPosted
  /\ \E ssid \in ApSsids :
     \E fail \in {"none", "nmcli", "rfkill", "hostapd", "dnsmasq"} :
     \E fails \in {0, 1, kIfconfigTries} :
       IF AlreadyStarted
         THEN /\ ev' = NetEv("EnableAccessPoint", 0, "early", 0)
              /\ UNCHANGED <<scope, copyVars, opens, now, tasks, crashed, sslVars, netVars>>
         ELSE
           LET slept == 1 + IfconfigSleeps(fails)
               off == [platform EXCEPT !.wifi = "off"]
               conf == [off EXCEPT !.hostapd_conf = ssid]
               radio == [conf EXCEPT !.hostapd = @ + 1]
               dhcpconf == [radio EXCEPT !.dnsmasq_conf = TRUE]
               up == [dhcpconf EXCEPT !.dnsmasq = @ + 1]
           IN /\ crashed' = (fail # "none")
              /\ platform' = CASE fail = "nmcli" -> platform
                               [] fail = "rfkill" -> off
                               [] fail = "hostapd" -> conf
                               [] fail = "dnsmasq" -> dhcpconf
                               [] OTHER -> up
              /\ hostapd_started_' = (fail \in {"none", "dnsmasq"})
              /\ now' = CASE fail \in {"nmcli", "rfkill"} -> now
                          [] fail = "hostapd" -> now + 1
                          [] OTHER -> now + slept
              /\ tasks' = IF fail = "none"
                            THEN PostDelayedTask(tasks, NotifyTask(0, "enable"),
                                                 now + slept, 0)
                            ELSE tasks
              /\ ev' = NetEv("EnableAccessPoint", 0,
                             IF fail = "none" THEN "void" ELSE "abort", 0)
              /\ UNCHANGED <<scope, copyVars, opens, sslVars, net_state, callbacks_, attempts>>

\* std::system("pkill -f ...") with n matching processes: they are killed
\* and the status is 0, or none matches and the status is 1.
Pkill(n) == IF n > 0 THEN 0 ELSE 1

\* The body of DisableAccessPoint(), given the exit status of "nmcli nm wifi
\* on", which is under CHECK_EQ(0, ...); both pkill results are dropped.
DisableBody_PkillChecked(nmcli) ==
  [abort |-> Pkill(platform.dnsmasq) # 0 \/ Pkill(platform.hostapd) # 0
               \/ nmcli # 0,
   platform |-> [platform EXCEPT !.dnsmasq = 0, !.hostapd = 0],
   started |-> hostapd_started_,
   tasks |-> tasks]
DisableBody(nmcli) ==
  [abort |-> nmcli # 0,
   platform |-> [platform EXCEPT !.dnsmasq = 0, !.hostapd = 0,
                                 !.wifi = IF nmcli = 0 THEN "on" ELSE @],
   started |-> IF nmcli = 0 THEN FALSE ELSE hostapd_started_,
   tasks |-> IF nmcli = 0
               THEN PostDelayedTask(tasks, NotifyTask(0, "disable"), now, 0)
               ELSE tasks]

\* NetworkImpl::NetworkImpl(task_runner): calls DisableAccessPoint().
NetworkImplCtor ==
  /\ ~crashed /\ net_state = "none"
  /\ \E nmcli \in ExitStatus :
       LET d == DisableBody(nmcli) IN
         /\ crashed' = d.abort
         /\ platform' = d.platform
         /\ hostapd_started_' = d.started
         /\ tasks' = d.tasks
         /\ net_state' = IF d.abort THEN net_state ELSE "alive"
         /\ ev' = NetEv("NetworkImpl", 0, IF d.abort THEN "abort" ELSE "void",
                        nmcli)
  /\ UNCHANGED <<scope, copyVars, opens, now, sslVars, callbacks_, attempts>>

DisableAccessPoint ==
  /\ ~crashed /\ net_state = "alive"
  /\ CountTasks(tasks, "NotifyNetworkChanged", 0) < MaxPosted
  /\ \E nmcli \in ExitStatus :
       LET d == DisableBody(nmcli) IN
         /\ crashed' = d.abort
         /\ platform' = d.platform
         /\ hostapd_started_' = d.started
         /\ tasks' = d.tasks
         /\ ev' = NetEv("DisableAccessPoint", 0,
                        IF d.abort THEN "abort" ELSE "void",
                        nmcli)
  /\ UNCHANGED <<scope, copyVars, opens, now, sslVars, net_state, callbacks_, attempts>>

\* NetworkImpl::~NetworkImpl(): calls DisableAccessPoint(), then the members
\* go, weak_ptr_factory_ among them.
NetworkImplDtor ==
  /\ ~crashed /\ net_state = "alive" /\ ~InitRunning
  /\ \E nmcli \in ExitStatus :
       LET d == DisableBody(nmcli) IN
         /\ crashed' = d.abort
         /\ platform' = d.platform
         /\ hostapd_started_' = d.started
         /\ tasks' = IF d.abort THEN d.tasks ELSE InvalidateWeakPtrs(d.tasks)
         /\ net_state' = IF d.abort THEN net_state ELSE "destroyed"
         /\ ev' = NetEv("~NetworkImpl", 0, IF d.abort THEN "abort" ELSE "void",
                        nmcli)
  /\ UNCHANGED <<scope, copyVars, opens, now, sslVars, callbacks_, attempts>>

\* Before the NetworkImpl is built; hostapd and dnsmasq of an earlier run of
\* the program may still be up.
NetStart(sc) ==
  /\ now = 0 /\ tasks = <<>> /\ crashed = FALSE /\ scope = sc
  /\ ev = NetEv("start", 0, "void", 0)
  /\ SslUnused /\ CopyUnused /\ OpenUnused
  /\ net_state = "none" /\ hostapd_started_ = FALSE /\ callbacks_ = <<>>
  /\ attempts = <<>>
  /\ \E stale \in {0, 1} :
       platform = [hostapd |-> stale, dnsmasq |-> stale, wifi |-> "on",
                   hostapd_conf |-> "", dnsmasq_conf |-> FALSE]

\* Connect attempts, each followed to its deadline; the access point is
\* left alone.
InitNet == NetStart(Scope(NetHorizon, MaxAttempts))

NextNet ==
  \/ NetworkImplCtor
  \/ NetworkImplDtor
  \/ AddOnConnectionChangedCallback
  \/ ConnectToService
  \/ TryToConnect
  \/ OnSuccess
  \/ NotifyNetworkChanged
  \/ NetDropTask

SpecNet == InitNet /\ [][NextNet]_vars

\* The task runner's loop: it runs the task that is due next, whatever it is.
RunnerStep == TryToConnect \/ OnSuccess \/ NotifyNetworkChanged \/ NetDropTask

\* Connect attempts under a runner that keeps running: time advances to the
\* next due task and the task is run.
FairAttempts == 1     \* connect attempts followed under the fair runner

InitFair == NetStart(Scope(NetHorizon, FairAttempts))

SpecNetFair == InitFair /\ [][NextNet]_vars /\ WF_vars(RunnerStep)

\* The access point switched on and off, with connect attempts followed for
\* their first seconds.
InitAP == NetStart(Scope(ApHorizon, ApAttempts))

NextAP ==
  \/ NetworkImplCtor
  \/ NetworkImplDtor
  \/ AddOnConnectionChangedCallback
  \/ ConnectToService
  \/ TryToConnect
  \/ OnSuccess
  \/ NotifyNetworkChanged
  \/ NetDropTask
  \/ EnableAccessPoint
  \/ DisableAccessPoint

SpecAP == InitAP /\ [][NextAP]_vars

\* ------------------------------------- SSLStream::Init, OpenSslSocket
MaxOpens == 2         \* OpenSslSocket calls
MaxConnectTries == 1  \* BIO_do_connect results that ask for a retry, per call

\* What SSL_do_handshake returns (1 done, 0 shut down, < 0 otherwise) and the
\* class SSL_get_error gives for it.
HandshakeOutcomes ==
  {[res |-> 1, err |-> "SSL_ERROR_NONE"]}
    \cup {[res |-> 0, err |-> e] :
            e \in {"SSL_ERROR_ZERO_RETURN", "SSL_ERROR_SSL"}}
    \cup {[res |-> -1, err |-> e] :
            e \in WouldBlock \cup {"SSL_ERROR_SSL", "SSL_ERROR_SYSCALL"}}

\* One turn of the for (;;) loop of Init: `if (res) return true;`, then
\* `if (res != SSL_ERROR_WANT_READ || res != SSL_ERROR_WANT_WRITE) return
\* false;`, then sleep(1).
HandshakeStep(out) ==
  IF out.res # 0 THEN "true"
  ELSE IF out.err # "SSL_ERROR_WANT_READ" \/ out.err # "SSL_ERROR_WANT_WRITE"
    THEN "false"
  ELSE "sleep"

\* What OpenSslSocket does with the result of Init: the success callback is
\* posted with the stream; on failure an error is built and dropped.
OpenSslResult_ReportsError(ok) ==
  [posts |-> IF ok THEN 1 ELSE 0, error_built |-> ~ok,
   error_calls |-> IF ok THEN 0 ELSE 1]
OpenSslResult(ok) ==
  [posts |-> IF ok THEN 1 ELSE 0, error_built |-> ~ok, error_calls |-> 0]

OpenTask(o) ==
  [kind |-> "open_success", due |-> 0, bound |-> FALSE, wp |-> TRUE,
   att |-> 0, open |-> o]

OpenEv(act, o) ==
  [act |-> act, att |-> 0, ret |-> "void", st |-> 0, calls |-> <<>>,
   open |-> o]

\* NetworkImpl::OpenSslSocket(host, port, success_callback, error_callback)
\* is entered: the stream is built and Init starts connecting.
OpenSslSocket ==
  /\ ~crashed /\ net_state = "alive" /\ ~InitRunning
  /\ Len(opens) < MaxOpens
  /\ opens' = Append(opens, [pc |-> "connect", ret |-> "none", nconnect |-> 0,
                             hs |-> <<>>, succ |-> 0, err |-> 0,
                             error_built |-> FALSE, inline |-> 0])
  /\ ev' = OpenEv("OpenSslSocket", Len(opens) + 1)
  /\ UNCHANGED <<scope, now, tasks, crashed, sslVars, netVars, copyVars>>

\* while (BIO_do_connect(stream_bio) != 1) { CHECK(BIO_should_retry); sleep(1); }
BioDoConnect ==
  /\ ~crashed
  /\ \E o \in DOMAIN opens :
       /\ opens[o].pc = "connect"
       /\ \E out \in {"connected", "retry", "fatal"} :
            /\ out = "retry" => opens[o].nconnect < MaxConnectTries
            /\ opens' = [opens EXCEPT
                           ![o].pc = IF out = "connected" THEN "handshake" ELSE @,
                           ![o].nconnect = IF out = "retry" THEN @ + 1 ELSE @]
            /\ now' = IF out = "retry" THEN now + 1 ELSE now
            /\ crashed' = (out = "fatal")
       /\ ev' = OpenEv("BIO_do_connect", o)
  /\ UNCHANGED <<scope, tasks, sslVars, netVars, copyVars>>

\* One SSL_do_handshake of Init; when Init returns, OpenSslSocket finishes.
SslDoHandshake ==
  /\ ~crashed
  /\ \E o \in DOMAIN opens :
       /\ opens[o].pc = "handshake"
       /\ \E out \in HandshakeOutcomes :
            LET step == HandshakeStep(out)
                r == OpenSslResult(step = "true")
            IN IF step = "sleep"
                 THEN /\ opens' = [opens EXCEPT ![o].hs = Append(@, out)]
                      /\ now' = now + 1
                      /\ UNCHANGED tasks
                 ELSE /\ opens' = [opens EXCEPT
                                     ![o].hs = Append(@, out),
                                     ![o].pc = "returned",
                                     ![o].ret = step,
                                     ![o].error_built = r.error_built,
                                     ![o].err = @ + r.error_calls,
                                     ![o].inline = @ + r.error_calls]
                      /\ tasks' = IF r.posts = 1
                                    THEN PostDelayedTask(tasks, OpenTask(o), now, 0)
                                    ELSE tasks
                      /\ UNCHANGED now
       /\ ev' = OpenEv("SSL_do_handshake", o)
  /\ UNCHANGED <<scope, crashed, sslVars, netVars, copyVars>>

\* The runner runs success_callback with the stream.
OpenSuccess ==
  /\ ~crashed /\ TaskReady(tasks, scope.horizon)
  /\ LET i == NextTask(tasks) t == tasks[i] IN
       /\ WeakPtrValid(t) /\ t.kind = "open_success"
       /\ now' = RunnerClock(t)
       /\ tasks' = RemoveAt(tasks, i)
       /\ opens' = [opens EXCEPT ![t.open].succ = @ + 1]
       /\ ev' = OpenEv("open_success", t.open)
  /\ UNCHANGED <<scope, crashed, sslVars, netVars, copyVars>>

InitOpen == NetStart(Scope(0, 0))

NextOpen ==
  \/ NetworkImplCtor
  \/ NetworkImplDtor
  \/ NotifyNetworkChanged
  \/ NetDropTask
  \/ OpenSslSocket
  \/ BioDoConnect
  \/ SslDoHandshake
  \/ OpenSuccess

SpecOpen == InitOpen /\ [][NextOpen]_vars

\* -------------------------------------- claims about Init, OpenSslSocket
LastHandshake(o) == opens[o].hs[Len(opens[o].hs)]

\* C11 as stated: Init returns true only after a handshake that completed,
\* returns false after a fatal error, and does not return on a would-block
\* result.
C11_InitContract ==
  \A o \in DOMAIN opens :
    opens[o].pc = "returned" =>
      /\ opens[o].ret = "true" <=> LastHandshake(o).res = 1
      /\ ~(LastHandshake(o).res < 0 /\ LastHandshake(o).err \in WouldBlock)

\* C15: when Init returns true the success callback runs exactly once, from
\* a posted task, and the error callback never; when Init returns false an
\* error is built and neither callback is ever run.  Nothing is called back
\* inside OpenSslSocket.
C15_OpenResolution ==
  \A o \in DOMAIN opens :
    LET queued == Cardinality({i \in 1..Len(tasks) :
                                 tasks[i].kind = "open_success"
                                   /\ tasks[i].open = o})
    IN /\ opens[o].err = 0 /\ opens[o].inline = 0
       /\ opens[o].pc # "returned" => (opens[o].succ = 0 /\ queued = 0)
       /\ opens[o].ret = "true" =>
            (opens[o].succ + queued = 1 /\ ~opens[o].error_built)
       /\ opens[o].ret = "false" =>
            (opens[o].succ = 0 /\ queued = 0 /\ opens[o].error_built)

\* One call has failed in Init and built its error, another has succeeded
\* and its success callback has run, after the NetworkImpl was destroyed.
C15_Witness ==
  /\ Len(opens) = 2 /\ ev.act = "open_success" /\ net_state = "destroyed"
  /\ \E o \in 1..2 : opens[o].ret = "false" /\ opens[o].error_built
  /\ \E o \in 1..2 : opens[o].ret = "true" /\ opens[o].succ = 1

\* ------------------------------------------ MemoryStream, StreamCopier
MaxChunks == 2        \* full buffers the longest source fills
MaxTimeCopy == 1      \* the last second in which the runner starts a task

kBufferSize == 4096   \* buffer_(4096)

\* Source lengths: empty, short, and around every multiple of the buffer.
SourceSizes ==
  {0, 1, 1000}
    \cup UNION {{k * kBufferSize - 1, k * kBufferSize, k * kBufferSize + 1} :
                  k \in 1..MaxChunks}

\* The n bytes of a source.
Bytes(n) == [i \in 1..n |-> i % 256]

\* A closure in the queue.  `bound` closures hold the StreamCopier's weak
\* pointer; the streams outlive the copy, so the closures bound to a stream's
\* own weak pointer stay valid.
CopyTask(kind, size) ==
  [kind |-> kind, due |-> 0, bound |-> TRUE, wp |-> TRUE, size |-> size,
   off |-> 0, code |-> ""]

Min(a, b) == IF a < b THEN a ELSE b

\* MemoryStream::Read(buffer, size_to_read, success_callback, error_callback):
\* the bytes copied, the stream afterwards, and buffer after the memcpy.
MemoryStreamRead(stream, buffer, size_to_read) ==
  LET size_read == Min(size_to_read, Len(stream.data_) - stream.read_position_)
  IN [size_read |-> size_read,
      stream |-> [stream EXCEPT !.read_position_ = @ + size_read],
      buffer |-> [i \in 1..Len(buffer) |->
                    IF i <= size_read
                      THEN stream.data_[stream.read_position_ + i]
                      ELSE buffer[i]]]

\* MemoryStream::Write(buffer, size_to_write, ...): data_.insert at the end.
MemoryStreamWrite_AtFront(stream, buffer, size_to_write) ==
  [stream EXCEPT !.data_ = SubSeq(buffer, 1, size_to_write) \o @]
MemoryStreamWrite(stream, buffer, size_to_write) ==
  [stream EXCEPT !.data_ = @ \o SubSeq(buffer, 1, size_to_write)]

\* What SSL_read / SSL_write answers when the copier's stream is an
\* SSLStream: one byte, all `num` bytes, would-block or a failure.  The peer
\* of a source delivers data `left` more times.
StreamOutcomes(stream, num) ==
  {out \in SslOutcomes(num) :
     \/ out.res <= 0
     \/ out.res \in {1, num} /\ stream.left > 0}

\* The error callback given to Copy is handed to the stream as it is.
ErrorCallback_Retry(t) ==
  [CopyTask("Copy", 0) EXCEPT !.code = t.code]
ErrorCallback(t) ==
  [CopyTask("OnError", 0) EXCEPT !.bound = FALSE, !.code = t.code]

\* The closure an SSLStream posts, seen from the copier: `success` is the
\* callback the copier gave (OnSuccessRead or Copy, bound to its weak
\* pointer), a retry is the stream's own.
StreamTask(t, success) ==
  IF t.kind = "RunDelayedTask"
    THEN IF t.cb = "success"
      THEN [CopyTask(success, t.n) EXCEPT !.off = t.off]
      ELSE ErrorCallback(t)
    ELSE [CopyTask(t.kind, t.size) EXCEPT !.bound = FALSE, !.off = t.off]

\* size_done_ += size;
SizeDone_Overwrite(size_done, size) == size
SizeDone(size_done, size) == size_done + size

CopyEv(act, via, out) == [act |-> act, via |-> via, out |-> out]

NoOutcome == [res |-> 1, err |-> "SSL_ERROR_NONE"]

\* SSLStream::ReadAsync(buffer, size, success_callback, error_callback) on the
\* source, at clock clk, with the queue q: SSL_read stores out.res bytes at
\* buffer.  The buffer of a destroyed StreamCopier is freed memory: storing
\* into it is undefined, the process may stop.
StreamRead(q, clk, size, out, act, via) ==
  LET p == ReadAsyncPost(0, size, out) IN
    /\ tasks' = PostDelayedTask(q, StreamTask(p.t, "OnSuccessRead"), clk,
                                p.delay)
    /\ source' = IF out.res > 0
                   THEN [source EXCEPT !.left = @ - 1,
                                       !.read_position_ = @ + out.res]
                   ELSE source
    /\ copier' = [copier EXCEPT !.started = TRUE,
                    !.buffer_ = [i \in 1..Len(@) |->
                                   IF i <= out.res
                                     THEN (source.read_position_ + i) % 256
                                     ELSE @[i]]]
    /\ crashed' \in IF copier.alive \/ out.res <= 0 THEN {FALSE}
                                                       ELSE {FALSE, TRUE}
    /\ ev' = CopyEv(act, via, out)

\* SSLStream::WriteAllAsync(buffer + off, size, success_callback,
\* error_callback) on the destination: SSL_write takes out.res bytes.  It
\* reads the buffer, which is freed memory once the StreamCopier is gone.
StreamWrite(q, clk, off, size, out, act, via) ==
  LET p == WriteAllAsyncPost(0, off, size, out) IN
    /\ tasks' = PostDelayedTask(q, StreamTask(p.t, "Copy"), clk, p.delay)
    /\ destination' =
         IF out.res > 0
           THEN [destination EXCEPT
                   !.left = @ - 1,
                   !.data_ = @ \o SubSeq(copier.buffer_, off + 1, off + out.res)]
           ELSE destination
    /\ crashed' \in IF copier.alive THEN {FALSE} ELSE {FALSE, TRUE}
    /\ ev' = CopyEv(act, via, out)

\* The body of StreamCopier::Copy: source_->Read into buffer_, with
\* OnSuccessRead bound to a weak pointer as the success callback, which a
\* MemoryStream posts with size_read, and error_callback.
CopyBody(q, via) ==
  IF source.kind = "memory"
    THEN LET r == MemoryStreamRead(source, copier.buffer_, Len(copier.buffer_))
         IN /\ source' = r.stream
            /\ copier' = [copier EXCEPT !.buffer_ = r.buffer, !.started = TRUE]
            /\ tasks' = PostDelayedTask(q, CopyTask("OnSuccessRead", r.size_read),
                                        now, 0)
            /\ copy_log' = Append(copy_log, <<"read", r.size_read>>)
            /\ ev' = CopyEv("Copy", via, NoOutcome)
            /\ UNCHANGED crashed
    ELSE /\ \E out \in StreamOutcomes(source, Len(copier.buffer_)) :
              StreamRead(q, now, Len(copier.buffer_), out, "Copy", via)
         /\ copy_log' = Append(copy_log, <<"ReadAsync", Len(copier.buffer_)>>)

\* StreamCopier::Copy(success_callback, error_callback), called by the owner.
Copy ==
  /\ ~crashed /\ copier.alive /\ ~copier.started
  /\ CopyBody(tasks, "call")
  /\ UNCHANGED <<scope, opens, now, destination, sslVars, netVars>>

\* The runner runs the Copy closure that the destination posted after a write.
CopyNext ==
  /\ ~crashed /\ TaskReady(tasks, scope.horizon)
  /\ LET i == NextTask(tasks) t == tasks[i] IN
       /\ WeakPtrValid(t) /\ t.kind = "Copy"
       /\ CopyBody(RemoveAt(tasks, i), "task")
  /\ UNCHANGED <<scope, opens, now, destination, sslVars, netVars>>

\* The runner runs StreamCopier::OnSuccessRead(success_callback,
\* error_callback, size): the bytes go to the destination, whose success
\* callback is Copy bound to a weak pointer, or, when size is 0,
\* success_callback runs with size_done_.
OnSuccessRead ==
  /\ ~crashed /\ TaskReady(tasks, scope.horizon)
  /\ LET i == NextTask(tasks)
         t == tasks[i]
         size_done == SizeDone(copier.size_done_, t.size)
     IN /\ WeakPtrValid(t) /\ t.kind = "OnSuccessRead"
        /\ copier' = [copier EXCEPT !.size_done_ = size_done]
        /\ IF t.size # 0
             THEN IF destination.kind = "memory"
               THEN /\ destination' =
                         MemoryStreamWrite(destination, copier.buffer_, t.size)
                    /\ tasks' = PostDelayedTask(RemoveAt(tasks, i),
                                                CopyTask("Copy", 0), now, 0)
                    /\ copy_log' = Append(copy_log, <<"write", t.size>>)
                    /\ ev' = CopyEv("OnSuccessRead", "task", NoOutcome)
                    /\ UNCHANGED crashed
               ELSE /\ \E out \in StreamOutcomes(destination, t.size) :
                         StreamWrite(RemoveAt(tasks, i), now, 0, t.size, out,
                                     "OnSuccessRead", "task")
                    /\ copy_log' = Append(copy_log, <<"WriteAllAsync", t.size>>)
             ELSE /\ tasks' = RemoveAt(tasks, i)
                  /\ copy_log' = Append(copy_log, <<"success", size_done>>)
                  /\ ev' = CopyEv("OnSuccessRead", "task", NoOutcome)
                  /\ UNCHANGED <<destination, crashed>>
  /\ UNCHANGED <<scope, opens, now, source, sslVars, netVars>>

\* The runner runs the source's ReadAsync again, a second after it would
\* have blocked, with the buffer, size and callbacks of the first call.
StreamReadRetry ==
  /\ ~crashed /\ TaskReady(tasks, scope.horizon)
  /\ LET i == NextTask(tasks) t == tasks[i] IN
       /\ t.kind = "ReadAsync"
       /\ now' = RunnerClock(t)
       /\ \E out \in StreamOutcomes(source, t.size) :
            StreamRead(RemoveAt(tasks, i), RunnerClock(t), t.size, out,
                       "ReadAsync", "task")
  /\ UNCHANGED <<scope, opens, destination, copy_log, sslVars, netVars>>

\* The runner runs the destination's WriteAllAsync again for the bytes left.
StreamWriteRetry ==
  /\ ~crashed /\ TaskReady(tasks, scope.horizon)
  /\ LET i == NextTask(tasks) t == tasks[i] IN
       /\ t.kind = "WriteAllAsync"
       /\ now' = RunnerClock(t)
       /\ \E out \in StreamOutcomes(destination, t.size) :
            StreamWrite(RemoveAt(tasks, i), RunnerClock(t), t.off, t.size, out,
                        "WriteAllAsync", "task")
  /\ UNCHANGED <<scope, opens, source, copier, copy_log, sslVars, netVars>>

\* The runner runs the closure a stream posted for its failure: the
\* error_callback given to Copy, with the stream's error.
OnError ==
  /\ ~crashed /\ TaskReady(tasks, scope.horizon)
  /\ LET i == NextTask(tasks) t == tasks[i] IN
       /\ WeakPtrValid(t) /\ t.kind = "OnError"
       /\ tasks' = RemoveAt(tasks, i)
       /\ copy_log' = Append(copy_log, <<t.code, 0>>)
  /\ ev' = CopyEv("OnError", "task", NoOutcome)
  /\ UNCHANGED <<scope, opens, now, crashed, source, destination, copier,
                 sslVars, netVars>>

\* ~StreamCopier(): weak_ptr_factory_ goes with the object.
CopierDestroy ==
  /\ ~crashed /\ copier.alive
  /\ copier' = [copier EXCEPT !.alive = FALSE]
  /\ tasks' = InvalidateWeakPtrs(tasks)
  /\ ev' = CopyEv("~StreamCopier", "call", NoOutcome)
  /\ UNCHANGED <<scope, opens, now, crashed, source, destination, copy_log, sslVars,
                 netVars>>

\* The runner reaches a closure whose StreamCopier is gone: nothing runs.
CopyDropTask ==
  /\ ~crashed /\ TaskReady(tasks, scope.horizon)
  /\ LET i == NextTask(tasks) IN
       /\ ~WeakPtrValid(tasks[i])
       /\ tasks' = RemoveAt(tasks, i)
  /\ ev' = CopyEv("Drop", "task", NoOutcome)
  /\ UNCHANGED <<scope, opens, now, crashed, copyVars, sslVars, netVars>>

MemoryStream(data) == [kind |-> "memory", data_ |-> data, read_position_ |-> 0]

\* An SSLStream as the copier sees it: the bytes it has taken, how many it
\* has delivered, and how often its peer still delivers or takes data.
SslStream(left) ==
  [kind |-> "ssl", data_ |-> <<>>, read_position_ |-> 0, left |-> left]

\* The pairs of streams a StreamCopier is built on: a MemoryStream of n bytes
\* to read and a MemoryStream to write that is empty or holds a byte already;
\* or an SSLStream on either side.
DestinationBefore == {<<>>, <<255>>}

CopyStreams ==
  {<<MemoryStream(Bytes(n)), MemoryStream(before)>> :
     n \in SourceSizes, before \in DestinationBefore}
    \cup {<<SslStream(MaxChunks), MemoryStream(<<>>)>>,
          <<MemoryStream(Bytes(kBufferSize + 1)), SslStream(2 * MaxChunks)>>,
          <<SslStream(MaxChunks), SslStream(2 * MaxChunks)>>}

InitCopy ==
  /\ now = 0 /\ tasks = <<>> /\ crashed = FALSE /\ scope = Scope(MaxTimeCopy, 0)
  /\ ev = CopyEv("StreamCopier", "call", NoOutcome)
  /\ SslUnused /\ NetUnused /\ OpenUnused
  /\ \E ss \in CopyStreams : source = ss[1] /\ destination = ss[2]
  /\ copier = [alive |-> TRUE, started |-> FALSE, size_done_ |-> 0,
               buffer_ |-> [i \in 1..kBufferSize |-> 0]]
  /\ copy_log = <<>>

NextCopy ==
  \/ Copy
  \/ CopyNext
  \/ OnSuccessRead
  \/ StreamReadRetry
  \/ StreamWriteRetry
  \/ OnError
  \/ CopierDestroy
  \/ CopyDropTask

SpecCopy == InitCopy /\ [][NextCopy]_vars

\* ------------------------------------------------- claims about the copy
\* The sizes of the reads that return data when n bytes are read b at a time.
RECURSIVE Chunks(_, _)
Chunks(n, b) == IF n = 0 THEN <<>> ELSE <<Min(n, b)>> \o Chunks(n - Min(n, b), b)

CeilDiv(n, b) == (n + b - 1) \div b

\* A read of c bytes followed by a write of c bytes, for each chunk.
RECURSIVE ReadWrite(_)
ReadWrite(cs) ==
  IF cs = <<>> THEN <<>>
  ELSE <<<<"read", cs[1]>>, <<"write", cs[1]>>>> \o ReadWrite(Tail(cs))

CopyTrace(n, b) ==
  ReadWrite(Chunks(n, b)) \o <<<<"read", 0>>, <<"success", n>>>>

IsPrefix(p, q) == Len(p) <= Len(q) /\ SubSeq(q, 1, Len(p)) = p

CopyDone == copy_log # <<>> /\ copy_log[Len(copy_log)][1] = "success"

\* C7: a copy of N bytes through a buffer of B makes ceil(N/B) reads that
\* return data, each followed by one write of the same bytes, then a read
\* that returns 0, and then calls success once, with N.
C7_CopyTrace ==
  (source.kind = "memory" /\ destination.kind = "memory") =>
  LET n == Len(source.data_)
      b == Len(copier.buffer_)
  IN /\ IsPrefix(copy_log, CopyTrace(n, b))
     /\ CopyDone =>
          Cardinality({i \in 1..Len(copy_log) :
                         copy_log[i][1] = "read" /\ copy_log[i][2] > 0})
            = CeilDiv(n, b)
     /\ (copier.alive /\ copier.started /\ tasks = <<>>) =>
          copy_log = CopyTrace(n, b)

\* A source of more than one buffer has been copied: two reads with data,
\* two writes, the empty read and success.
C7_Witness ==
  /\ source.kind = "memory" /\ destination.kind = "memory"
  /\ CopyDone /\ Len(source.data_) = kBufferSize + 1
  /\ Len(copy_log) = 6 /\ copy_log[6] = <<"success", kBufferSize + 1>>

ErrorCodes == {"socket_read_failed", "socket_write_failed"}

\* The callbacks given to Copy that have run, in order.
CallbackLog ==
  SelectSeq(copy_log, LAMBDA e : e[1] \in {"success"} \cup ErrorCodes)

\* The stream call of the last step failed, and not with would-block.
StreamFailed(e) == e.out.res <= 0 /\ ~IsWouldBlock(e.out)

\* C16 as stated: once the StreamCopier is destroyed, neither callback given
\* to Copy runs, whether the outstanding read or write succeeds or fails.
C16_NoCallbackAfterDestroy ==
  [][~copier.alive => CallbackLog' = CallbackLog]_vars

\* C17: the first failure a stream reports ends the job: the stream posts
\* the error callback alone, it runs once with the stream's error, and
\* nothing is read, written or called after it.
C17_ErrorAborts ==
  /\ [](/\ \A i \in 1..Len(copy_log) :
             copy_log[i][1] \in ErrorCodes => (i = Len(copy_log) /\ tasks = <<>>)
        /\ \A i \in 1..Len(tasks) :
             tasks[i].kind = "OnError" =>
               (Len(tasks) = 1 /\ CallbackLog = <<>>))
  /\ [][/\ StreamFailed(ev') =>
             /\ Len(tasks') = 1 /\ tasks'[1].kind = "OnError"
             /\ WeakPtrValid(tasks'[1])
             /\ tasks'[1].code =
                  IF ev'.act \in {"Copy", "ReadAsync"}
                    THEN "socket_read_failed" ELSE "socket_write_failed"
        /\ (tasks # <<>> /\ tasks[1].kind = "OnError" /\ tasks' # tasks) =>
             (tasks' = <<>> /\ copy_log' = Append(copy_log, <<tasks[1].code, 0>>))
       ]_vars

\* The destination took one byte of a read of two, failed when the rest was
\* offered a second later, and the error callback has run.
C17_Witness ==
  /\ copier.alive /\ now = 1 /\ ev.act = "OnError" /\ tasks = <<>>
  /\ Len(copy_log) = 3 /\ copy_log[2][1] = "WriteAllAsync"
  /\ copy_log[3] = <<"socket_write_failed", 0>>
  /\ Len(destination.data_) = 1


\* ---------------------------------------------- claims about NetworkImpl
Pending(kind, a) == CountTasks(tasks, kind, a)
Queued(a) == Cardinality({i \in 1..Len(tasks) : tasks[i].att = a})

\* C3 as stated: with the access point active, ConnectToService returns the
\* "busy" failure, the process keeps running and no attempt is started.
C3_BusyReturn ==
  [][(hostapd_started_ /\ ev'.act = "ConnectToService") =>
       (~crashed' /\ ev'.ret = "busy" /\ tasks' = tasks
          /\ attempts' = attempts)]_vars

\* C4 as stated: an attempt that matched before its deadline, once its
\* posted tasks are consumed, has run on_success once and its notification
\* once.
C4_Original ==
  \A a \in DOMAIN attempts :
    (attempts[a].matched = "in time" /\ Queued(a) = 0) =>
      (attempts[a].on_success = 1 /\ attempts[a].nrun = 1)

\* C4 as amended: a successful attempt posts one notification and one
\* on_success and no further TryToConnect; on_success runs exactly once;
\* the notification runs at most once, calling every registered listener
\* once, and is skipped only when the NetworkImpl was destroyed before the
\* runner reached it.
C4_SuccessResolution ==
  /\ \A a \in DOMAIN attempts :
       attempts[a].status = "success" =>
         /\ attempts[a].nposted = 1
         /\ Pending("TryToConnect", a) = 0
         /\ attempts[a].on_success + Pending("on_success", a) = 1
         /\ attempts[a].nrun + Pending("NotifyNetworkChanged", a) <= 1
         /\ (attempts[a].on_success = 1 /\ attempts[a].nrun = 0) =>
              net_state = "destroyed"
  /\ ev.act = "NotifyNetworkChanged" =>
       /\ Len(ev.calls) = Len(callbacks_)
       /\ \A i \in 1..Len(callbacks_) : ev.calls[i].listener = callbacks_[i]

\* An attempt matched before its deadline; its notification has run with a
\* listener registered, and on_success has just run.
C4_Witness ==
  /\ ev.act = "on_success" /\ callbacks_ # <<>>
  /\ attempts[ev.att].matched = "in time"
  /\ attempts[ev.att].on_success = 1 /\ attempts[ev.att].nrun = 1

\* C5 as stated: an attempt that has not matched before its deadline never
\* runs on_success.
C5_Original ==
  \A a \in DOMAIN attempts :
    attempts[a].matched # "in time" => attempts[a].on_success = 0

\* C5 as amended: an attempt in which no step, the one at or after the
\* deadline included, reads the target ssid never runs on_success; the step
\* that finds the deadline passed posts the attempt's only notification and
\* ends the chain, and the notification, when it runs, carries false.
C5_DeadlineResolution ==
  \A a \in DOMAIN attempts :
    /\ attempts[a].matched = "no" =>
         (attempts[a].on_success = 0 /\ Pending("on_success", a) = 0)
    /\ attempts[a].status = "trying" => attempts[a].nposted = 0
    /\ attempts[a].status = "expired" =>
         /\ attempts[a].matched = "no"
         /\ attempts[a].expired_late
         /\ attempts[a].nposted = 1
         /\ Pending("TryToConnect", a) = 0
         /\ attempts[a].nrun + Pending("NotifyNetworkChanged", a) <= 1
         /\ attempts[a].nrun = 1 => attempts[a].nvalue = "false"

\* An attempt has expired without a match and its notification has told the
\* listeners false.
C5_Witness ==
  /\ ev.act = "NotifyNetworkChanged" /\ ev.ret = "expired"
  /\ attempts[ev.att].status = "expired" /\ now >= attempts[ev.att].until
  /\ attempts[ev.att].on_success = 0 /\ attempts[ev.att].nrun = 1
  /\ attempts[ev.att].nvalue = "false"

\* C6 as stated: at most one TryToConnect chain is pending on the runner.
C6_Original ==
  Cardinality({i \in 1..Len(tasks) : tasks[i].kind = "TryToConnect"}) <= 1

\* C6 as amended: every attempt has at most one TryToConnect step pending,
\* and none once it has resolved; nothing keeps a second ConnectToService
\* call from starting a chain next to an unresolved one.
C6_OneChainPerAttempt ==
  \A a \in DOMAIN attempts :
    /\ Pending("TryToConnect", a) <= 1
    /\ attempts[a].status # "trying" => Pending("TryToConnect", a) = 0

\* Two attempts, both unresolved, each with its step on the runner.
C6_Witness ==
  /\ Len(attempts) = 2 /\ net_state = "alive"
  /\ \A a \in 1..2 :
       attempts[a].status = "trying" /\ Pending("TryToConnect", a) = 1

\* C8: EnableAccessPoint called with the access point active starts no
\* service, writes no file, posts nothing and leaves the access point
\* active; hostapd and dnsmasq never run twice.
C8_EnableIdempotent ==
  /\ [](platform.hostapd <= 1 /\ platform.dnsmasq <= 1)
  /\ [][(hostapd_started_ /\ ev'.act = "EnableAccessPoint") =>
          (platform' = platform /\ tasks' = tasks /\ hostapd_started_'
             /\ ~crashed')]_vars

\* EnableAccessPoint has just returned early on an active access point.
C8_Witness ==
  /\ ev.act = "EnableAccessPoint" /\ ev.ret = "early"
  /\ hostapd_started_ /\ platform.hostapd = 1 /\ platform.dnsmasq = 1

\* DisableAccessPoint as a public call and as the constructor's call.
DisableCalls == {"DisableAccessPoint", "NetworkImpl"}

PostedOneNotification ==
  /\ Len(tasks') = Len(tasks) + 1
  /\ SubSeq(tasks', 1, Len(tasks)) = tasks
  /\ tasks'[Len(tasks')].kind = "NotifyNetworkChanged"

\* C9 as stated: with no access point active, DisableAccessPoint completes
\* whatever its commands return, leaves the access point inactive and posts
\* one notification.
C9_Original ==
  [][(~hostapd_started_ /\ ev'.act \in DisableCalls) =>
       (~crashed' /\ ~hostapd_started_' /\ PostedOneNotification)]_vars

\* C9 as amended: with no access point active, DisableAccessPoint completes
\* whatever the two pkill return, leaves the access point inactive and posts
\* one notification, provided "nmcli nm wifi on" exits 0; when that command
\* exits non-zero the process aborts and nothing is posted.
C9_DisableWhenInactive ==
  [][(~hostapd_started_ /\ ev'.act \in DisableCalls) =>
       /\ ~hostapd_started_'
       /\ IF ev'.st = 0
            THEN ~crashed' /\ PostedOneNotification
            ELSE crashed' /\ tasks' = tasks]_vars

\* DisableAccessPoint has completed a second time with no access point ever
\* enabled: the constructor's notification and its own are queued.
C9_Witness ==
  /\ ev.act = "DisableAccessPoint" /\ ev.st = 0 /\ ~crashed
  /\ ~hostapd_started_ /\ platform.hostapd_conf = ""
  /\ Pending("NotifyNetworkChanged", 0) = 2

\* C18: GetConnectionState gives kOffline whatever the probes would answer,
\* so every call a notification makes to a listener carries false.
C18_AlwaysOffline ==
  /\ \A ping \in ExitStatus, dev \in ExitStatus, connecting \in ExitStatus :
       GetConnectionState(ping, dev, connecting) = "kOffline"
  /\ \A i \in 1..Len(ev.calls) : ~ev.calls[i].online
  /\ \A a \in DOMAIN attempts : attempts[a].nvalue \in {"none", "false"}

\* The notification posted by EnableAccessPoint has run and called a listener.
C18_Witness ==
  /\ ev.act = "NotifyNetworkChanged" /\ ev.ret = "enable" /\ hostapd_started_
  /\ Len(ev.calls) >= 1 /\ ~ev.calls[1].online

\* A connect attempt has resolved in this step: a match or the deadline.
Resolved(a) ==
  /\ attempts'[a].status # "trying"
  /\ a \in DOMAIN attempts => attempts[a].status = "trying"

NotifyPosted(a) ==
  CountTasks(tasks', "NotifyNetworkChanged", a)
    = (IF a = 0 \/ a \in DOMAIN attempts THEN Pending("NotifyNetworkChanged", a)
       ELSE 0) + 1

\* C19: a notification that runs calls every listener registered so far
\* once, in the order of registration, whatever value the one before it
\* carried; the step that resolves a connect attempt, an EnableAccessPoint
\* that starts the access point and a DisableAccessPoint (the constructor's
\* and the destructor's too) each post one notification when they return.
C19_ListenersNotified ==
  [][/\ ev'.act = "NotifyNetworkChanged" =>
          /\ Len(ev'.calls) = Len(callbacks_)
          /\ \A i \in 1..Len(callbacks_) : ev'.calls[i].listener = i
     /\ \A a \in DOMAIN attempts' : Resolved(a) => NotifyPosted(a)
     /\ (ev'.act = "EnableAccessPoint" /\ ~hostapd_started_
           /\ hostapd_started_' /\ ~crashed') => NotifyPosted(0)
     /\ (ev'.act \in {"DisableAccessPoint", "NetworkImpl", "~NetworkImpl"}
           /\ ~crashed') => NotifyPosted(0)]_vars

\* Two listeners are called in order by the notification of a
\* DisableAccessPoint, after the notification of a connect attempt gave
\* them the same value.
C19_Witness ==
  /\ ev.act = "NotifyNetworkChanged" /\ ev.ret = "disable"
  /\ Len(ev.calls) = 2 /\ ev.calls[1].listener = 1 /\ ev.calls[2].listener = 2
  /\ \E a \in DOMAIN attempts :
       attempts[a].nrun = 1 /\ attempts[a].nvalue = "false"

\* C20 as stated: no TryToConnect step that runs at or after the deadline
\* forks a join process.
C20_NoForkAtDeadline ==
  \A a \in DOMAIN attempts : ~attempts[a].late_fork

\* Attempt a exists and has resolved, as a success or by its deadline.
AttemptResolved(a) ==
  a \in DOMAIN attempts /\ attempts[a].status \in {"success", "expired"}

\* C21 as stated: under a fair runner every attempt that was started
\* resolves, as a success or by its deadline.
C21_Original ==
  \A a \in 1..FairAttempts : (a \in DOMAIN attempts) ~> AttemptResolved(a)

\* The chain of attempt a has ended: no step of it is left on the runner.
ChainEnded(a) == a \in DOMAIN attempts /\ Pending("TryToConnect", a) = 0

\* C21 as amended: under a fair runner the chain of every attempt ends; it
\* ends resolved, or unresolved when the NetworkImpl was destroyed or a CHECK
\* stopped the process first.  An attempt resolves once, as a success or by
\* its deadline and never both, on_success runs only for a success, and no
\* step is due more than one retry interval after the deadline.
C21_AttemptTerminates ==
  /\ \A a \in 1..FairAttempts :
       (a \in DOMAIN attempts) ~>
         (crashed \/ (ChainEnded(a) /\ (AttemptResolved(a)
                                          \/ net_state = "destroyed")))
  /\ [](\A a \in DOMAIN attempts :
          /\ AttemptResolved(a) => Pending("TryToConnect", a) = 0
          /\ attempts[a].status = "expired" =>
               (attempts[a].on_success = 0 /\ Pending("on_success", a) = 0))
  /\ [](\A i \in 1..Len(tasks) :
          tasks[i].kind = "TryToConnect" =>
            tasks[i].due <= attempts[tasks[i].att].until + kRetryDelay)
  /\ [][\A a \in DOMAIN attempts :
          AttemptResolved(a) => attempts'[a].status = attempts[a].status]_vars

\* An attempt has run to its deadline and expired there; nothing of its
\* chain is left.
C21_Witness ==
  /\ ev.act = "TryToConnect" /\ AttemptResolved(ev.att)
  /\ attempts[ev.att].status = "expired" /\ now = attempts[ev.att].until
  /\ ChainEnded(ev.att) /\ net_state = "alive" /\ ~crashed

\* C22 as stated: whenever on_success of an attempt has run, the
\* notification of that resolution has run before it.
C22_Original ==
  \A a \in DOMAIN attempts :
    attempts[a].on_success >= 1 => attempts[a].nrun >= 1

\* C22 as amended: the notification of a success is queued ahead of
\* on_success and runs first while the NetworkImpl exists; when the
\* NetworkImpl is destroyed in between, the notification is dropped and
\* on_success runs all the same, no listener having been called.
C22_NotifyBeforeSuccess ==
  /\ [](\A j \in 1..Len(tasks) :
          tasks[j].kind = "on_success" =>
            \/ attempts[tasks[j].att].nrun = 1
            \/ net_state = "destroyed"
                 /\ Pending("NotifyNetworkChanged", tasks[j].att) = 0
            \/ \E i \in 1..(j - 1) :
                 /\ tasks[i].kind = "NotifyNetworkChanged"
                 /\ tasks[i].att = tasks[j].att /\ tasks[i].due <= tasks[j].due
                 /\ WeakPtrValid(tasks[i]) = (net_state = "alive"))
  /\ [][/\ ev'.act = "on_success" =>
             \/ attempts[ev'.att].nrun = 1
             \/ attempts[ev'.att].nrun = 0 /\ net_state = "destroyed"
        /\ (ev'.act = "NotifyNetworkChanged" /\ ev'.ret = "success") =>
             /\ net_state = "alive" /\ attempts[ev'.att].on_success = 0
             /\ CountTasks(tasks', "on_success", ev'.att) = 1]_vars

\* The NetworkImpl was destroyed after the step that matched; the
\* notification was dropped and on_success has just run.
C22_Witness ==
  /\ ev.act = "on_success" /\ net_state = "destroyed" /\ callbacks_ # <<>>
  /\ attempts[ev.att].status = "success"
  /\ attempts[ev.att].on_success = 1 /\ attempts[ev.att].nrun = 0

\* The first k bytes the source delivers.
SourceBytes(k) ==
  IF source.kind = "memory" THEN SubSeq(source.data_, 1, k) ELSE Bytes(k)

\* The destination holds what it held before the copy, then the first k
\* bytes of the source.
DestinationHolds(k) ==
  \E before \in DestinationBefore : destination.data_ = before \o SourceBytes(k)

IsRead(e) == e[1] \in {"read", "ReadAsync"}
IsWrite(e) == e[1] \in {"write", "WriteAllAsync"}

\* C23: the copier has one read or one write outstanding at a time and they
\* alternate; when it issues a read, every byte the source has delivered is
\* in the destination, behind what was there, in order, and is counted in
\* the running total; a copy between MemoryStreams that succeeds leaves the
\* destination with its earlier content followed by the N source bytes, and
\* reports N, the sum of the sizes read.
C23_ChunksInOrder ==
  /\ [](/\ Len(tasks) <= 1
        /\ \A i \in 1..(Len(copy_log) - 1) :
             /\ IsRead(copy_log[i]) => ~IsRead(copy_log[i + 1])
             /\ IsWrite(copy_log[i]) => ~IsWrite(copy_log[i + 1])
             /\ (copy_log[i][1] = "read" /\ copy_log[i][2] > 0) =>
                  (IsWrite(copy_log[i + 1])
                     /\ copy_log[i + 1][2] = copy_log[i][2])
        /\ (CopyDone /\ source.kind = "memory" /\ destination.kind = "memory") =>
             /\ DestinationHolds(Len(source.data_))
             /\ copy_log[Len(copy_log)][2] = Len(source.data_)
             /\ copier.size_done_ = source.read_position_)
  /\ [][(Len(copy_log') > Len(copy_log) /\ IsRead(copy_log'[Len(copy_log')])) =>
          /\ DestinationHolds(source.read_position_)
          /\ copier.size_done_ = source.read_position_
          /\ destination' = destination]_vars

\* A MemoryStream of one buffer and a byte has been copied behind the byte
\* the destination held.
C23_Witness ==
  /\ CopyDone /\ source.kind = "memory" /\ destination.kind = "memory"
  /\ Len(source.data_) = kBufferSize + 1
  /\ destination.data_ = <<255>> \o source.data_
  /\ copier.size_done_ = kBufferSize + 1

====
